---- MODULE Spec2Model ----
(***************************************************************************)
(* The TOON command line conversion layer (packages/cli/src/conversion.ts) *)
(* as a state machine: one run of encodeToToon (JSON -> TOON), optionally  *)
(* followed by one run of decodeToJson on the text the first run produced. *)
(* Text is a sequence of one-character strings.                            *)
(***************************************************************************)
EXTENDS Integers, Sequences, FiniteSets, TLC

(* ------------------------------ bounds -------------------------------- *)

\* longest array of the value universe
MaxArrLen == 2
\* largest number of the value universe
MaxNum == 1

(* ------------------------------- text --------------------------------- *)

NL == "\n"
QUOTE == "\""
BSLASH == "\\"
Undefined == "undefined"

RECURSIVE Concat(_)
\* chunks.join('')
Concat(chunks) ==
  IF chunks = <<>> THEN <<>> ELSE Head(chunks) \o Concat(Tail(chunks))

RECURSIVE Join(_, _)
\* lines.join(sep)
Join(lines, sep) ==
  IF lines = <<>> THEN <<>>
  ELSE IF Len(lines) = 1 THEN lines[1]
  ELSE lines[1] \o sep \o Join(Tail(lines), sep)

RECURSIVE Spaces(_)
Spaces(n) == IF n <= 0 THEN <<>> ELSE <<" ">> \o Spaces(n - 1)

RECURSIVE SplitOn(_, _)
\* text.split(c): the pieces between occurrences of the character c
SplitOn(text, c) ==
  IF \A i \in 1..Len(text) : text[i] # c THEN <<text>>
  ELSE LET i == CHOOSE j \in 1..Len(text) :
                  text[j] = c /\ \A k \in 1..(j - 1) : text[k] # c
       IN <<SubSeq(text, 1, i - 1)>> \o SplitOn(SubSeq(text, i + 1, Len(text)), c)

Digits == <<"0", "1", "2", "3", "4", "5", "6", "7", "8", "9">>
IsDigit(c) == \E i \in 1..10 : Digits[i] = c
DigitVal(c) == (CHOOSE i \in 1..10 : Digits[i] = c) - 1

RECURSIVE NatText(_)
NatText(n) == IF n < 10 THEN <<Digits[n + 1]>> ELSE NatText(n \div 10) \o <<Digits[(n % 10) + 1]>>
\* the decimal text of an integer
NumText(n) == IF n < 0 THEN <<"-">> \o NatText(0 - n) ELSE NatText(n)

IsNatText(s) == s # <<>> /\ \A i \in 1..Len(s) : IsDigit(s[i])
\* the numeric pattern of a bare token
IsNumText(s) == IsNatText(s) \/ (s # <<>> /\ s[1] = "-" /\ IsNatText(Tail(s)))
RECURSIVE NatVal(_)
NatVal(s) == IF s = <<>> THEN 0 ELSE NatVal(SubSeq(s, 1, Len(s) - 1)) * 10 + DigitVal(s[Len(s)])
NumVal(s) == IF s[1] = "-" THEN 0 - NatVal(Tail(s)) ELSE NatVal(s)

TxtNull == <<"n", "u", "l", "l">>
TxtTrue == <<"t", "r", "u", "e">>
TxtFalse == <<"f", "a", "l", "s", "e">>

(* ---------------------------- value model ------------------------------ *)

\* a value is its tag followed by what it holds
Null == <<"null">>
Bool(b) == <<"bool", b>>
Num(n) == <<"num", n>>
Str(s) == <<"str", s>>
Arr(xs) == <<"arr", xs>>
\* an object is the ordered list of its <<key, value>> entries
Obj(es) == <<"obj", es>>
Kind(x) == x[1]
Body(x) == x[2]

IsScalar(x) == Kind(x) \in {"null", "bool", "num", "str"}

(* ------------------------------ encoder -------------------------------- *)

ValidDelimiters == {",", "\t", "|"}
\* delimiter in the closed set, indent a positive integer
ValidOptions(o) == o.delimiter \in ValidDelimiters /\ o.indent > 0

\* a string is written bare unless it could be read as something else
NeedsQuote(s, delim) ==
  \/ s = <<>>
  \/ s[1] = " " \/ s[Len(s)] = " "
  \/ s \in {TxtNull, TxtTrue, TxtFalse}
  \/ IsNumText(s)
  \/ \E i \in 1..Len(s) : s[i] \in {delim, ":", NL, QUOTE, BSLASH}

RECURSIVE Escape(_)
Escape(s) ==
  IF s = <<>> THEN <<>>
  ELSE (IF Head(s) \in {QUOTE, BSLASH} THEN <<BSLASH, Head(s)>>
        ELSE IF Head(s) = NL THEN <<BSLASH, "n">>
        ELSE <<Head(s)>>) \o Escape(Tail(s))

encodeScalar(x, delim) ==
  CASE Kind(x) = "null" -> TxtNull
    [] Kind(x) = "bool" -> IF Body(x) THEN TxtTrue ELSE TxtFalse
    [] Kind(x) = "num" -> NumText(Body(x))
    [] Kind(x) = "str" -> IF NeedsQuote(Body(x), delim)
                      THEN <<QUOTE>> \o Escape(Body(x)) \o <<QUOTE>>
                      ELSE Body(x)

RECURSIVE encodeScalars(_, _)
encodeScalars(xs, delim) ==
  IF xs = <<>> THEN <<>> ELSE <<encodeScalar(Head(xs), delim)>> \o encodeScalars(Tail(xs), delim)

Keys(es) == [i \in 1..Len(es) |-> es[i][1]]
Vals(es) == [i \in 1..Len(es) |-> es[i][2]]

\* the tabular array detector: a non-empty array of objects that share one
\* ordered, non-empty key list and hold scalars only
IsTabular(xs) ==
  /\ xs # <<>>
  /\ \A i \in 1..Len(xs) :
       /\ Kind(xs[i]) = "obj"
       /\ Body(xs[i]) # <<>>
       /\ Keys(Body(xs[i])) = Keys(Body(xs[1]))
       /\ \A j \in 1..Len(Body(xs[i])) : IsScalar(Body(xs[i])[j][2])

\* key[n]{c1,c2,...}: and one row per element, one level deeper
encodeTable(k, xs, o, depth) ==
  <<Spaces(depth * o.indent) \o k \o <<"[">> \o NatText(Len(xs)) \o <<"]", "{">>
      \o Join(Keys(Body(xs[1])), <<",">>) \o <<"}", ":">> >>
    \o [i \in 1..Len(xs) |->
          Spaces((depth + 1) * o.indent)
            \o Join(encodeScalars(Vals(Body(xs[i])), o.delimiter), <<o.delimiter>>)]

RECURSIVE encodeEntries(_, _, _)
\* the lines of an object's entries at a nesting depth
encodeEntries(es, o, depth) ==
  IF es = <<>> THEN <<>>
  ELSE LET k == Head(es)[1]
           x == Head(es)[2]
           ind == Spaces(depth * o.indent)
           here ==
             CASE IsScalar(x) ->
                    <<ind \o k \o <<":", " ">> \o encodeScalar(x, o.delimiter)>>
               [] Kind(x) = "obj" ->
                    <<ind \o k \o <<":">> >> \o encodeEntries(Body(x), o, depth + 1)
               [] Kind(x) = "arr" /\ IsTabular(Body(x)) -> encodeTable(k, Body(x), o, depth)
               [] Kind(x) = "arr" /\ ~IsTabular(Body(x)) ->
                    <<ind \o k \o <<"[">> \o NatText(Len(Body(x))) \o <<"]", ":">>
                      \o (IF Body(x) = <<>> THEN <<>>
                          ELSE <<" ">> \o Join(encodeScalars(Body(x), o.delimiter), <<o.delimiter>>))>>
       IN here \o encodeEntries(Tail(es), o, depth)

\* encodeLines(value, options): the line sequence of a root object
encodeLinesOf(x, o) == encodeEntries(Body(x), o, 0)

\* encode(value, options): the single string
encodeOf(x, o) == Join(encodeLinesOf(x, o), <<NL>>)

(* ------------------------------ decoder -------------------------------- *)

DecodeDelimiter == ","
Fail(kind) == [ok |-> FALSE, err |-> kind]
Ok(x) == [ok |-> TRUE, v |-> x]

RECURSIVE Unescape(_)
\* the characters of a quoted string's inside; "!" marks an invalid escape
Unescape(s) ==
  IF s = <<>> THEN <<>>
  ELSE IF Head(s) = BSLASH
       THEN IF Len(s) < 2 THEN <<"!">>
            ELSE (IF s[2] = "n" THEN <<NL>> ELSE <<s[2]>>) \o Unescape(SubSeq(s, 3, Len(s)))
       ELSE <<Head(s)>> \o Unescape(Tail(s))

RECURSIVE ClosingQuote(_, _)
\* index of the first unescaped quote at or after i, 0 when there is none
ClosingQuote(s, i) ==
  IF i > Len(s) THEN 0
  ELSE IF s[i] = BSLASH THEN ClosingQuote(s, i + 2)
  ELSE IF s[i] = QUOTE THEN i
  ELSE ClosingQuote(s, i + 1)

\* one scalar token: quoted strings are unescaped and never coerced, bare
\* tokens matching a literal coerce to it, anything else stays a string
parseScalar(tok) ==
  IF tok # <<>> /\ tok[1] = QUOTE
  THEN LET q == ClosingQuote(tok, 2)
       IN IF q = 0 THEN Fail("UnterminatedString")
          ELSE IF q # Len(tok) THEN Fail("UnexpectedToken")
          ELSE Ok(Str(Unescape(SubSeq(tok, 2, q - 1))))
  ELSE IF tok = TxtNull THEN Ok(Null)
  ELSE IF tok = TxtTrue THEN Ok(Bool(TRUE))
  ELSE IF tok = TxtFalse THEN Ok(Bool(FALSE))
  ELSE IF IsNumText(tok) THEN Ok(Num(NumVal(tok)))
  ELSE Ok(Str(tok))

RECURSIVE splitRow(_, _, _)
\* the tokens of a delimited row; a delimiter inside quotes does not split
splitRow(s, i, cur) ==
  IF i > Len(s) THEN <<cur>>
  ELSE IF s[i] = QUOTE /\ cur = <<>>
       THEN LET q == ClosingQuote(s, i + 1)
            IN IF q = 0 THEN <<SubSeq(s, i, Len(s))>>
               ELSE splitRow(s, q + 1, SubSeq(s, i, q))
  ELSE IF s[i] = DecodeDelimiter THEN <<cur>> \o splitRow(s, i + 1, <<>>)
  ELSE splitRow(s, i + 1, Append(cur, s[i]))

RECURSIVE parseScalars(_)
parseScalars(toks) ==
  IF toks = <<>> THEN Ok(<<>>)
  ELSE LET h == parseScalar(Head(toks))
       IN IF ~h.ok THEN h
          ELSE LET r == parseScalars(Tail(toks))
               IN IF ~r.ok THEN r ELSE Ok(<<h.v>> \o r.v)

RECURSIVE LeadingSpaces(_)
LeadingSpaces(s) == IF s = <<>> \/ Head(s) # " " THEN 0 ELSE 1 + LeadingSpaces(Tail(s))

IsBlank(s) == LeadingSpaces(s) = Len(s)

IndexOf(s, c) ==
  IF \E i \in 1..Len(s) : s[i] = c
  THEN CHOOSE i \in 1..Len(s) : s[i] = c /\ \A j \in 1..(i - 1) : s[j] # c
  ELSE 0

RECURSIVE scanLines(_, _, _)
\* indent depth and content of every non-blank line
scanLines(raw, indent, strict) ==
  IF raw = <<>> THEN Ok(<<>>)
  ELSE IF IsBlank(Head(raw)) THEN scanLines(Tail(raw), indent, strict)
  ELSE LET n == LeadingSpaces(Head(raw))
           rest == scanLines(Tail(raw), indent, strict)
           line == [depth |-> (2 * n + indent) \div (2 * indent),
                    content |-> SubSeq(Head(raw), n + 1, Len(Head(raw)))]
       IN IF strict /\ n % indent # 0 THEN Fail("IndentMismatch")
          ELSE IF ~rest.ok THEN rest
          ELSE Ok(<<line>> \o rest.v)

HasKey(es, k) == \E i \in 1..Len(es) : es[i][1] = k
\* obj[k] = x: a key already present keeps its place and takes the new value
Put(es, k, x) ==
  IF HasKey(es, k)
  THEN [i \in 1..Len(es) |-> IF es[i][1] = k THEN <<k, x>> ELSE es[i]]
  ELSE Append(es, <<k, x>>)

\* key, declared length and columns of a line's header (the text before
\* the colon): key, key[n] or key[n]{c1,c2,...}
parseHeader(head) ==
  LET b == IndexOf(head, "[")
      e == IndexOf(head, "]")
      after == SubSeq(head, e + 1, Len(head))
      n == NatVal(SubSeq(head, b + 1, e - 1))
      key == SubSeq(head, 1, b - 1)
  IN IF head = <<>> THEN Fail("UnexpectedToken")
     ELSE IF b = 0 THEN Ok([key |-> head, kind |-> "plain", n |-> 0, cols |-> <<>>])
     ELSE IF b = 1 \/ e < b \/ ~IsNatText(SubSeq(head, b + 1, e - 1))
          THEN Fail("UnexpectedToken")
     ELSE IF after = <<>> THEN Ok([key |-> key, kind |-> "arr", n |-> n, cols |-> <<>>])
     ELSE IF Len(after) >= 3 /\ after[1] = "{" /\ after[Len(after)] = "}"
          THEN Ok([key |-> key, kind |-> "tab", n |-> n,
                   cols |-> SplitOn(SubSeq(after, 2, Len(after) - 1), ",")])
     ELSE Fail("UnexpectedToken")

Min(a, b) == IF a < b THEN a ELSE b

RECURSIVE parseRows(_, _, _, _, _, _)
\* the rows of a tabular array: the lines at the given depth from ls[i] on,
\* each an object over the header's columns
parseRows(ls, i, depth, cols, strict, acc) ==
  IF i > Len(ls) \/ ls[i].depth # depth THEN [ok |-> TRUE, v |-> acc, next |-> i]
  ELSE LET xs == parseScalars(splitRow(ls[i].content, 1, <<>>))
       IN IF ~xs.ok THEN xs
          ELSE IF strict /\ Len(xs.v) # Len(cols) THEN Fail("LengthMismatch")
          ELSE parseRows(ls, i + 1, depth, cols, strict,
                         Append(acc, Obj([j \in 1..Min(Len(cols), Len(xs.v)) |->
                                            <<cols[j], xs.v[j]>>])))

RECURSIVE parseEntries(_, _, _, _, _)
\* the entries of the object whose lines start at ls[i] at the given depth;
\* next is the index of the first line that is not part of it
parseEntries(ls, i, depth, strict, acc) ==
  IF i > Len(ls) \/ ls[i].depth < depth THEN [ok |-> TRUE, v |-> acc, next |-> i]
  ELSE IF ls[i].depth > depth THEN Fail("UnexpectedToken")
  ELSE LET c == ls[i].content
           p == IndexOf(c, ":")
           h == parseHeader(SubSeq(c, 1, p - 1))
           rest == SubSeq(c, p + 1, Len(c))
       IN IF p = 0 THEN (IF IndexOf(c, QUOTE) # 0 /\ ClosingQuote(c, IndexOf(c, QUOTE) + 1) = 0
                         THEN Fail("UnterminatedString") ELSE Fail("UnexpectedToken"))
          ELSE IF ~h.ok THEN h
          ELSE IF strict /\ HasKey(acc, h.v.key) THEN Fail("DuplicateKey")
          ELSE IF rest = <<>> /\ h.v.kind = "plain"
               THEN LET sub == parseEntries(ls, i + 1, depth + 1, strict, <<>>)
                    IN IF ~sub.ok THEN sub
                       ELSE parseEntries(ls, sub.next, depth, strict,
                                         Put(acc, h.v.key, Obj(sub.v)))
          ELSE IF h.v.kind = "tab"
               THEN LET rows == parseRows(ls, i + 1, depth + 1, h.v.cols, strict, <<>>)
                    IN IF rest # <<>> THEN Fail("UnexpectedToken")
                       ELSE IF ~rows.ok THEN rows
                       ELSE IF strict /\ Len(rows.v) # h.v.n THEN Fail("LengthMismatch")
                       ELSE parseEntries(ls, rows.next, depth, strict,
                                         Put(acc, h.v.key, Arr(rows.v)))
          ELSE IF rest # <<>> /\ rest[1] # " " THEN Fail("UnexpectedToken")
          ELSE IF h.v.kind = "arr"
               THEN LET xs == IF rest = <<>> THEN Ok(<<>>)
                              ELSE parseScalars(splitRow(Tail(rest), 1, <<>>))
                    IN IF ~xs.ok THEN xs
                       ELSE IF strict /\ Len(xs.v) # h.v.n THEN Fail("LengthMismatch")
                       ELSE parseEntries(ls, i + 1, depth, strict,
                                         Put(acc, h.v.key, Arr(xs.v)))
          ELSE LET x == parseScalar(Tail(rest))
               IN IF ~x.ok THEN x
                  ELSE parseEntries(ls, i + 1, depth, strict, Put(acc, h.v.key, x.v))

\* decode(text, options)
decodeOf(text, o) ==
  LET ls == scanLines(SplitOn(text, NL), o.indent, o.strict)
  IN IF ~ls.ok THEN ls
     ELSE LET r == parseEntries(ls.v, 1, 0, o.strict, <<>>)
          IN IF ~r.ok THEN r ELSE Ok(Obj(r.v))

(* -------------------------------- JSON --------------------------------- *)

RECURSIVE jsonStringify(_, _, _)
\* JSON.stringify(value, undefined, indent) at a nesting depth
jsonStringify(x, indent, depth) ==
  LET brk(d) == IF indent > 0 THEN <<NL>> \o Spaces(d * indent) ELSE <<>>
      items(n, item(_)) ==
        LET RECURSIVE from(_)
            from(i) == IF i > n THEN <<>>
                       ELSE (IF i > 1 THEN <<",">> ELSE <<>>) \o brk(depth + 1)
                            \o item(i) \o from(i + 1)
        IN from(1)
      entry(i) == <<QUOTE>> \o Escape(Body(x)[i][1]) \o <<QUOTE, ":">>
                  \o (IF indent > 0 THEN <<" ">> ELSE <<>>)
                  \o jsonStringify(Body(x)[i][2], indent, depth + 1)
      elem(i) == jsonStringify(Body(x)[i], indent, depth + 1)
  IN CASE Kind(x) = "null" -> TxtNull
       [] Kind(x) = "bool" -> IF Body(x) THEN TxtTrue ELSE TxtFalse
       [] Kind(x) = "num" -> NumText(Body(x))
       [] Kind(x) = "str" -> <<QUOTE>> \o Escape(Body(x)) \o <<QUOTE>>
       [] Kind(x) = "arr" -> IF Body(x) = <<>> THEN <<"[", "]">>
                         ELSE <<"[">> \o items(Len(Body(x)), elem) \o brk(depth) \o <<"]">>
       [] Kind(x) = "obj" -> IF Body(x) = <<>> THEN <<"{", "}">>
                         ELSE <<"{">> \o items(Len(Body(x)), entry) \o brk(depth) \o <<"}">>

(* --------------------------- value universe ---------------------------- *)

KA == <<"a">>
KB == <<"b">>
Strings == {<<"x">>, <<"1">>, <<>>, <<"a", ",", "b">>, <<"q", QUOTE>>, <<"T", " ", "x">>,
            TxtTrue, <<" ", "x">>, <<"a", ":", "b">>, <<BSLASH, "n">>, <<"a", NL, "b">>,
            <<"-", "1">>, <<"a", "|", "b">>}
Scalars == {Null, Bool(TRUE), Bool(FALSE)} \cup {Num(n) : n \in (0 - 1)..MaxNum}
             \cup {Str(s) : s \in Strings}
ArrElems == {Num(1), Str(<<"x">>), Str(<<"a", ",", "b">>)}
Arrays == {Arr(xs) : xs \in UNION {[1..n -> ArrElems] : n \in 0..MaxArrLen}}
Inner == {Obj(<<>>), Obj(<< <<KA, Bool(TRUE)>> >>), Obj(<< <<KB, Str(<<"1">>)>> >>),
          Obj(<< <<KA, Num(1)>>, <<KB, Null>> >>),
          Obj(<< <<KA, Obj(<< <<KA, Bool(TRUE)>> >>)>> >>)}
Rows == {Obj(<< <<KA, x>>, <<KB, y>> >>) :
           x \in {Num(1), Str(<<"x">>)}, y \in {Null, Str(<<"a", ",", "b">>)}}
\* arrays of objects with one key list
Tables == {Arr(xs) : xs \in UNION {[1..n -> Rows] : n \in 1..MaxArrLen}}
Leaves == Scalars \cup Arrays \cup Inner \cup Tables
\* {title: "TOON test", count: 3, nested: {ok: true}}
Example1 ==
  Obj(<< <<(<<"t", "i", "t", "l", "e">>), Str(<<"T", "O", "O", "N", " ", "t", "e", "s", "t">>)>>,
         <<(<<"c", "o", "u", "n", "t">>), Num(3)>>,
         <<(<<"n", "e", "s", "t", "e", "d">>), Obj(<< <<(<<"o", "k">>), Bool(TRUE)>> >>)>> >>)
\* {items: ["alpha", "beta"], meta: {done: false}}
Example2 ==
  Obj(<< <<(<<"i", "t", "e", "m", "s">>),
           Arr(<<Str(<<"a", "l", "p", "h", "a">>), Str(<<"b", "e", "t", "a">>)>>)>>,
         <<(<<"m", "e", "t", "a">>), Obj(<< <<(<<"d", "o", "n", "e">>), Bool(FALSE)>> >>)>> >>)
\* the JSON values a run may be given
Values ==
  {Obj(<<>>), Example1, Example2}
    \cup {Obj(<< <<KA, x>> >>) : x \in Leaves}
    \cup {Obj(<< <<KA, x>>, <<KB, y>> >>) : x \in Leaves,
                                           y \in {Num(1), Obj(<< <<KA, Bool(TRUE)>> >>)}}

JsonIndents == {0, 2}
JsonTable == {<<jsonStringify(x, i, 0), x>> : x \in Values, i \in JsonIndents}
MalformedJson == <<"{", " ", "i", "n", "v", "a", "l", "i", "d", " ", "}">>
\* JSON.parse(text)
jsonParse(text) ==
  IF \E e \in JsonTable : e[1] = text
  THEN Ok((CHOOSE e \in JsonTable : e[1] = text)[2])
  ELSE Fail("SyntaxError")

(* ------------------------------- state --------------------------------- *)

VARIABLES
  op,          \* the function running: "encode" (encodeToToon) or "decode" (decodeToJson)
  pc,          \* the statement the run is at
  cfg,         \* the config argument
  inputText,   \* what readInput(config.input) returns when it succeeds
  content,     \* jsonContent / toonContent
  data,        \* the parsed value
  toonOutput,  \* encode's result (stats path)
  jsonOutput,  \* JSON.stringify's result
  lines,       \* the sequence the encodeLines iterable yields
  pulled,      \* how many lines the for-of loop has taken from it
  line,        \* the loop variable
  isFirst,
  fileHandle,  \* "undefined", "open" or "closed"
  fs,          \* the content of each output file
  pending,     \* file writes issued and not yet completed
  stdout,      \* the chunks given to process.stdout
  consola,     \* the messages given to consola
  error,       \* the error the run has thrown, <<>> when none
  events,      \* every call the run has made, in order
  origin       \* for a decode run chained to an encode run: that run's value and config

vars == <<op, pc, cfg, inputText, content, data, toonOutput, jsonOutput, lines, pulled,
          line, isFirst, fileHandle, fs, pending, stdout, consola, error, events, origin>>

NoData == <<"undefined">>
NoOrigin == [t |-> "none"]
NoError == <<>>
OldContent == <<"#">>
ToonPath == "out.toon"
JsonPath == "out.json"
Paths == {ToonPath, JsonPath}

\* if (config.output): undefined and the empty string are both falsy
HasOutput(c) == c.output \notin {Undefined, ""}

EncodeOptions == {[indent |-> 2, delimiter |-> ","], [indent |-> 2, delimiter |-> "|"],
                  [indent |-> 2, delimiter |-> ";"], [indent |-> 0, delimiter |-> ","]}
EncodeConfigs ==
  {[input |-> "stdin", output |-> o, indent |-> e.indent, delimiter |-> e.delimiter,
    printStats |-> p] : o \in {Undefined, "", ToonPath}, e \in EncodeOptions, p \in BOOLEAN}
DecodeConfigs ==
  {[input |-> "stdin", output |-> o, indent |-> 2, strict |-> st] :
     o \in {Undefined, "", JsonPath}, st \in BOOLEAN}

JsonInputs == {jsonStringify(x, 0, 0) : x \in Values} \cup {MalformedJson}
ToonInputs ==
  { <<"k", ":", " ", QUOTE, "u">>,                              \* key: "u
    <<"k", ":", " ", QUOTE, "u">> \o <<NL, "a", ":", " ", "1">>,
    <<"a", ":", " ", "1">>,
    <<"a", ":", " ", "1", NL, "a", ":", " ", "2">>,           \* duplicate key
    <<"a", "[", "2", "]", ":", " ", "1">>,                      \* declared 2, holds 1
    <<"a", ":", NL, " ", " ", " ", "b", ":", " ", "1">>,      \* indent 3
    <<"a", "[", "3", "]", "{", "x", ",", "y", "}", ":", NL,
      " ", " ", "1", ",", "2", NL, " ", " ", "3", ",", "4">> } \* declared 3, 2 rows

encodeOptions(c) == [indent |-> c.indent, delimiter |-> c.delimiter]
decodeOptions(c) == [indent |-> c.indent, strict |-> c.strict]

Ev(name, text) == <<name, text>>
Msg(level, kind, a, b) == [level |-> level, kind |-> kind, a |-> a, b |-> b]

\* estimateTokenCount(text)
estimateTokenCount(text) == (Len(text) + 3) \div 4

RunStart(o, c, text, org) ==
  /\ op = o /\ cfg = c /\ inputText = text /\ origin = org
  /\ pc = "readInput"
  /\ content = <<>> /\ data = NoData /\ toonOutput = <<>> /\ jsonOutput = <<>>
  /\ lines = <<>> /\ pulled = 0 /\ line = <<>> /\ isFirst = TRUE
  /\ fileHandle = "undefined" /\ pending = <<>>
  /\ stdout = <<>> /\ consola = <<>> /\ error = NoError /\ events = <<>>

Init ==
  /\ fs = [p \in Paths |-> OldContent]
  /\ \/ \E c \in EncodeConfigs, text \in JsonInputs : RunStart("encode", c, text, NoOrigin)
     \/ \E c \in DecodeConfigs, text \in ToonInputs : RunStart("decode", c, text, NoOrigin)

\* throw e out of the running function
Throw(e) == error' = e /\ pc' = "failed"

(* ---------------------------- encodeToToon ----------------------------- *)

\* const jsonContent = await readInput(config.input)
E_ReadInput ==
  /\ op = "encode" /\ pc = "readInput"
  /\ \E ok \in BOOLEAN :
       IF ok THEN /\ content' = inputText
                  /\ pc' = "parse"
                  /\ error' = error
             ELSE /\ Throw(<<"ENOENT">>)
                  /\ content' = content
  /\ events' = Append(events, Ev("readInput", <<>>))
  /\ UNCHANGED <<op, cfg, inputText, data, toonOutput, jsonOutput, lines, pulled, line,
                 isFirst, fileHandle, fs, pending, stdout, consola, origin>>

\* E_ParseJson with the parser's error rethrown as it is
E_ParseJson_Unwrapped ==
  /\ op = "encode" /\ pc = "parse"
  /\ LET r == jsonParse(content)
     IN IF r.ok THEN /\ data' = r.v
                     /\ pc' = IF cfg.printStats THEN "encode" ELSE "encodeLines"
                     /\ error' = error
                ELSE /\ Throw(<<r.err>>)
                     /\ data' = data
  /\ events' = Append(events, Ev("JSON.parse", <<>>))
  /\ UNCHANGED <<op, cfg, inputText, content, toonOutput, jsonOutput, lines, pulled, line,
                 isFirst, fileHandle, fs, pending, stdout, consola, origin>>

\* E_ParseJson with the printStats test forgotten: always the streaming path
E_ParseJson_AlwaysStreams ==
  /\ op = "encode" /\ pc = "parse"
  /\ LET r == jsonParse(content)
     IN IF r.ok THEN /\ data' = r.v
                     /\ pc' = "encodeLines"
                     /\ error' = error
                ELSE /\ Throw(<<"Failed to parse JSON: ", r.err>>)
                     /\ data' = data
  /\ events' = Append(events, Ev("JSON.parse", <<>>))
  /\ UNCHANGED <<op, cfg, inputText, content, toonOutput, jsonOutput, lines, pulled, line,
                 isFirst, fileHandle, fs, pending, stdout, consola, origin>>

\* data = JSON.parse(jsonContent), the failure wrapped; then the options record
E_ParseJson ==
  /\ op = "encode" /\ pc = "parse"
  /\ LET r == jsonParse(content)
     IN IF r.ok THEN /\ data' = r.v
                     /\ pc' = IF cfg.printStats THEN "encode" ELSE "encodeLines"
                     /\ error' = error
                ELSE /\ Throw(<<"Failed to parse JSON: ", r.err>>)
                     /\ data' = data
  /\ events' = Append(events, Ev("JSON.parse", <<>>))
  /\ UNCHANGED <<op, cfg, inputText, content, toonOutput, jsonOutput, lines, pulled, line,
                 isFirst, fileHandle, fs, pending, stdout, consola, origin>>

\* the error encode and encodeLines raise on options they reject
OptionError(o) ==
  IF o.delimiter \notin ValidDelimiters THEN <<"InvalidDelimiter">> ELSE <<"InvalidIndent">>

\* const toonOutput = encode(data, encodeOptions)
E_Encode ==
  /\ op = "encode" /\ pc = "encode"
  /\ IF ValidOptions(encodeOptions(cfg))
     THEN /\ toonOutput' = encodeOf(data, encodeOptions(cfg))
          /\ pc' = IF HasOutput(cfg) THEN "writeFile" ELSE "log"
          /\ error' = error
     ELSE /\ Throw(OptionError(encodeOptions(cfg)))
          /\ toonOutput' = toonOutput
  /\ events' = Append(events, Ev("encode", <<>>))
  /\ UNCHANGED <<op, cfg, inputText, content, data, jsonOutput, lines, pulled, line,
                 isFirst, fileHandle, fs, pending, stdout, consola, origin>>

\* await fsp.writeFile(path, text, 'utf-8'): a failure leaves the file as it
\* was or truncated
WriteFile(path, text, next) ==
  /\ \E ok \in BOOLEAN :
       IF ok THEN /\ fs' = [fs EXCEPT ![path] = text]
                  /\ pc' = next
                  /\ error' = error
             ELSE /\ \E left \in {fs[path], <<>>} : fs' = [fs EXCEPT ![path] = left]
                  /\ Throw(<<"EIO">>)
  /\ events' = Append(events, Ev("writeFile", text))

\* await fsp.writeFile(config.output, toonOutput, 'utf-8')
E_WriteFile ==
  /\ op = "encode" /\ pc = "writeFile"
  /\ WriteFile(cfg.output, toonOutput, "report")
  /\ UNCHANGED <<op, cfg, inputText, content, data, toonOutput, jsonOutput, lines, pulled,
                 line, isFirst, fileHandle, pending, stdout, consola, origin>>

\* console.log(text): the text and a newline, handed to stdout in one chunk
ConsoleLog(text) == stdout' = Append(stdout, text \o <<NL>>)

\* console.log(toonOutput)
E_Log ==
  /\ op = "encode" /\ pc = "log"
  /\ ConsoleLog(toonOutput)
  /\ pc' = "report"
  /\ events' = Append(events, Ev("console.log", toonOutput))
  /\ UNCHANGED <<op, cfg, inputText, content, data, toonOutput, jsonOutput, lines, pulled,
                 line, isFirst, fileHandle, fs, pending, consola, error, origin>>

\* consola.success(`Encoded ... -> ...`) / consola.success(`Decoded ... -> ...`)
Confirmation(kind) == Msg("success", kind, cfg.input, cfg.output)

\* the token estimates, the confirmation when there is an output path, the
\* blank line and the two statistics messages
E_Report ==
  /\ op = "encode" /\ pc = "report"
  /\ LET jsonTokens == estimateTokenCount(content)
         toonTokens == estimateTokenCount(toonOutput)
         diff == jsonTokens - toonTokens
     IN consola' = consola
                     \o (IF HasOutput(cfg) THEN <<Confirmation("Encoded")>> ELSE <<>>)
                     \o <<Msg("info", "Token estimates", NumText(jsonTokens), NumText(toonTokens)),
                          Msg("success", "Saved", NumText(diff), <<>>)>>
  /\ ConsoleLog(<<>>)
  /\ pc' = "done"
  /\ events' = events \o (IF HasOutput(cfg) THEN <<Ev("confirm", <<>>)>> ELSE <<>>)
                      \o <<Ev("stats", <<>>)>>
  /\ UNCHANGED <<op, cfg, inputText, content, data, toonOutput, jsonOutput, lines, pulled,
                 line, isFirst, fileHandle, fs, pending, error, origin>>

\* E_EncodeLines with nothing raised at the call: the lines are handed to
\* writeStreamingToon whatever the options
E_EncodeLines_Unchecked ==
  /\ op = "encode" /\ pc = "encodeLines"
  /\ lines' = encodeLinesOf(data, encodeOptions(cfg))
  /\ pc' = IF HasOutput(cfg) THEN "open" ELSE "stdoutNext"
  /\ events' = Append(events, Ev("encodeLines", <<>>))
  /\ UNCHANGED <<op, cfg, inputText, content, data, toonOutput, jsonOutput, pulled, line,
                 isFirst, fileHandle, fs, pending, stdout, consola, error, origin>>

\* encodeLines(data, encodeOptions), the argument of the writeStreamingToon call
E_EncodeLines ==
  /\ op = "encode" /\ pc = "encodeLines"
  /\ IF ValidOptions(encodeOptions(cfg))
     THEN /\ lines' = encodeLinesOf(data, encodeOptions(cfg))
          /\ pc' = IF HasOutput(cfg) THEN "open" ELSE "stdoutNext"
          /\ error' = error
     ELSE /\ Throw(OptionError(encodeOptions(cfg)))
          /\ lines' = lines
  /\ events' = Append(events, Ev("encodeLines", <<>>))
  /\ UNCHANGED <<op, cfg, inputText, content, data, toonOutput, jsonOutput, pulled, line,
                 isFirst, fileHandle, fs, pending, stdout, consola, origin>>

(* -------------------------- writeStreamingToon ------------------------- *)

\* S_Open with the 'a' flag: the file is opened without being truncated
S_Open_Appends ==
  /\ op = "encode" /\ pc = "open"
  /\ \E ok \in BOOLEAN :
       IF ok THEN /\ fileHandle' = "open"
                  /\ pc' = "next"
                  /\ error' = error
                  /\ fs' = fs
             ELSE /\ error' = <<"EACCES">>
                  /\ pc' = "finally"
                  /\ UNCHANGED <<fileHandle, fs>>
  /\ events' = Append(events, Ev("open", <<>>))
  /\ UNCHANGED <<op, cfg, inputText, content, data, toonOutput, jsonOutput, lines, pulled,
                 line, isFirst, pending, stdout, consola, origin>>

\* fileHandle = await fsp.open(outputPath, 'w'): opening truncates the file
S_Open ==
  /\ op = "encode" /\ pc = "open"
  /\ \E ok \in BOOLEAN :
       IF ok THEN /\ fileHandle' = "open"
                  /\ fs' = [fs EXCEPT ![cfg.output] = <<>>]
                  /\ pc' = "next"
                  /\ error' = error
             ELSE /\ error' = <<"EACCES">>
                  /\ pc' = "finally"
                  /\ UNCHANGED <<fileHandle, fs>>
  /\ events' = Append(events, Ev("open", <<>>))
  /\ UNCHANGED <<op, cfg, inputText, content, data, toonOutput, jsonOutput, lines, pulled,
                 line, isFirst, pending, stdout, consola, origin>>

\* one step of the for-of loop's iterator: the next line, the end of the
\* sequence, or an error thrown by the producer
Pull(onLine, onEnd, onThrow) ==
  \/ /\ pulled < Len(lines)
     /\ line' = lines[pulled + 1]
     /\ pulled' = pulled + 1
     /\ pc' = onLine
     /\ events' = Append(events, Ev("next", lines[pulled + 1]))
     /\ error' = error
  \/ /\ pulled = Len(lines)
     /\ pc' = onEnd
     /\ events' = Append(events, Ev("end", <<>>))
     /\ UNCHANGED <<line, pulled, error>>
  \/ /\ pulled < Len(lines)
     /\ error' = <<"ProducerError">>
     /\ pc' = onThrow
     /\ events' = Append(events, Ev("nextThrows", <<>>))
     /\ UNCHANGED <<line, pulled>>

\* S_Next with the separator forgotten: every line goes straight to its write
S_Next_NeverSeparates ==
  /\ op = "encode" /\ pc = "next"
  /\ Pull("writeLine", "finally", "finally")
  /\ UNCHANGED <<op, cfg, inputText, content, data, toonOutput, jsonOutput, lines,
                 isFirst, fileHandle, fs, pending, stdout, consola, origin>>

\* for (const line of lines), file branch
S_Next ==
  /\ op = "encode" /\ pc = "next"
  /\ Pull(IF isFirst THEN "writeLine" ELSE "writeSep", "finally", "finally")
  /\ UNCHANGED <<op, cfg, inputText, content, data, toonOutput, jsonOutput, lines,
                 isFirst, fileHandle, fs, pending, stdout, consola, origin>>

\* fileHandle.write(chunk): the write is issued
IssueWrite(chunk, next) ==
  /\ pending' = Append(pending, chunk)
  /\ pc' = next
  /\ events' = Append(events, Ev("write", chunk))

\* S_WriteSep without the await: the line's write is issued while the
\* separator's is outstanding
S_WriteSep_NotAwaited ==
  /\ op = "encode" /\ pc = "writeSep"
  /\ IssueWrite(<<NL>>, "writeLine")
  /\ UNCHANGED <<op, cfg, inputText, content, data, toonOutput, jsonOutput, lines, pulled,
                 line, isFirst, fileHandle, fs, stdout, consola, error, origin>>

\* if (!isFirst) await fileHandle.write('\n')
S_WriteSep ==
  /\ op = "encode" /\ pc = "writeSep"
  /\ IssueWrite(<<NL>>, "awaitSep")
  /\ UNCHANGED <<op, cfg, inputText, content, data, toonOutput, jsonOutput, lines, pulled,
                 line, isFirst, fileHandle, fs, stdout, consola, error, origin>>

\* await fileHandle.write(line)
S_WriteLine ==
  /\ op = "encode" /\ pc = "writeLine"
  /\ IssueWrite(line, "awaitLine")
  /\ UNCHANGED <<op, cfg, inputText, content, data, toonOutput, jsonOutput, lines, pulled,
                 line, isFirst, fileHandle, fs, stdout, consola, error, origin>>

\* S_WriteDone with isFirst never reset
S_WriteDone_KeepsFirst ==
  /\ op = "encode" /\ pc \in {"awaitSep", "awaitLine"}
  /\ pending # <<>>
  /\ pending' = Tail(pending)
  /\ \E ok \in BOOLEAN :
       IF ok THEN /\ fs' = [fs EXCEPT ![cfg.output] = @ \o Head(pending)]
                  /\ pc' = IF pc = "awaitSep" THEN "writeLine" ELSE "next"
                  /\ error' = error
                  /\ events' = Append(events, Ev("written", Head(pending)))
             ELSE /\ error' = <<"EIO">>
                  /\ pc' = "finally"
                  /\ events' = Append(events, Ev("writeFails", Head(pending)))
                  /\ UNCHANGED fs
  /\ UNCHANGED <<op, cfg, inputText, content, data, toonOutput, jsonOutput, lines, pulled,
                 line, isFirst, fileHandle, stdout, consola, origin>>

\* the awaited write completes; after the line's write, isFirst = false
S_WriteDone ==
  /\ op = "encode" /\ pc \in {"awaitSep", "awaitLine"}
  /\ pending # <<>>
  /\ pending' = Tail(pending)
  /\ \E ok \in BOOLEAN :
       IF ok THEN /\ fs' = [fs EXCEPT ![cfg.output] = @ \o Head(pending)]
                  /\ pc' = IF pc = "awaitSep" THEN "writeLine" ELSE "next"
                  /\ isFirst' = IF pc = "awaitLine" THEN FALSE ELSE isFirst
                  /\ error' = error
                  /\ events' = Append(events, Ev("written", Head(pending)))
             ELSE /\ error' = <<"EIO">>
                  /\ pc' = "finally"
                  /\ events' = Append(events, Ev("writeFails", Head(pending)))
                  /\ UNCHANGED <<fs, isFirst>>
  /\ UNCHANGED <<op, cfg, inputText, content, data, toonOutput, jsonOutput, lines, pulled,
                 line, fileHandle, stdout, consola, origin>>

\* S_Close without the finally: the handle is closed only when the loop ended
S_Close_OnlyOnSuccess ==
  /\ op = "encode" /\ pc = "finally"
  /\ IF fileHandle = "open" /\ error = NoError
     THEN /\ fileHandle' = "closed"
          /\ events' = Append(events, Ev("close", <<>>))
          /\ \E ok \in BOOLEAN :
               IF ok THEN /\ error' = error
                          /\ pc' = "confirm"
                     ELSE Throw(<<"ECLOSE">>)
     ELSE /\ pc' = IF error = NoError THEN "confirm" ELSE "failed"
          /\ UNCHANGED <<fileHandle, events, error>>
  /\ UNCHANGED <<op, cfg, inputText, content, data, toonOutput, jsonOutput, lines, pulled,
                 line, isFirst, fs, pending, stdout, consola, origin>>

\* finally { await fileHandle?.close() }, then the return or the rethrow
S_Close ==
  /\ op = "encode" /\ pc = "finally"
  /\ IF fileHandle = "open"
     THEN /\ fileHandle' = "closed"
          /\ events' = Append(events, Ev("close", <<>>))
          /\ \E ok \in BOOLEAN :
               IF ok THEN /\ error' = error
                          /\ pc' = IF error = NoError THEN "confirm" ELSE "failed"
                     ELSE Throw(<<"ECLOSE">>)
     ELSE /\ pc' = IF error = NoError THEN "confirm" ELSE "failed"
          /\ UNCHANGED <<fileHandle, events, error>>
  /\ UNCHANGED <<op, cfg, inputText, content, data, toonOutput, jsonOutput, lines, pulled,
                 line, isFirst, fs, pending, stdout, consola, origin>>

\* for (const line of lines), stdout branch
O_Next ==
  /\ op = "encode" /\ pc = "stdoutNext"
  /\ Pull("stdoutWrite", "stdoutEnd", "failed")
  /\ UNCHANGED <<op, cfg, inputText, content, data, toonOutput, jsonOutput, lines,
                 isFirst, fileHandle, fs, pending, stdout, consola, origin>>

\* if (!isFirst) process.stdout.write('\n'); process.stdout.write(line); isFirst = false
O_Write ==
  /\ op = "encode" /\ pc = "stdoutWrite"
  /\ stdout' = stdout \o (IF isFirst THEN <<>> ELSE << <<NL>> >>) \o <<line>>
  /\ isFirst' = FALSE
  /\ pc' = "stdoutNext"
  /\ events' = events \o (IF isFirst THEN <<>> ELSE <<Ev("stdout.write", <<NL>>)>>)
                      \o <<Ev("stdout.write", line)>>
  /\ UNCHANGED <<op, cfg, inputText, content, data, toonOutput, jsonOutput, lines, pulled,
                 line, fileHandle, fs, pending, consola, error, origin>>

\* O_Final with the final newline forgotten
O_Final_NoNewline ==
  /\ op = "encode" /\ pc = "stdoutEnd"
  /\ pc' = "confirm"
  /\ UNCHANGED <<op, cfg, inputText, content, data, toonOutput, jsonOutput, lines, pulled,
                 line, isFirst, fileHandle, fs, pending, stdout, consola, error, events,
                 origin>>

\* process.stdout.write('\n'), the final newline
O_Final ==
  /\ op = "encode" /\ pc = "stdoutEnd"
  /\ stdout' = Append(stdout, <<NL>>)
  /\ pc' = "confirm"
  /\ events' = Append(events, Ev("stdout.write", <<NL>>))
  /\ UNCHANGED <<op, cfg, inputText, content, data, toonOutput, jsonOutput, lines, pulled,
                 line, isFirst, fileHandle, fs, pending, consola, error, origin>>

\* E_Confirm with the output test forgotten: the confirmation on every return
E_Confirm_Always ==
  /\ op = "encode" /\ pc = "confirm"
  /\ consola' = Append(consola, Confirmation("Encoded"))
  /\ events' = Append(events, Ev("confirm", <<>>))
  /\ pc' = "done"
  /\ UNCHANGED <<op, cfg, inputText, content, data, toonOutput, jsonOutput, lines, pulled,
                 line, isFirst, fileHandle, fs, pending, stdout, error, origin>>

\* after writeStreamingToon returns: the confirmation when there is an output path
E_Confirm ==
  /\ op = "encode" /\ pc = "confirm"
  /\ IF HasOutput(cfg)
     THEN /\ consola' = Append(consola, Confirmation("Encoded"))
          /\ events' = Append(events, Ev("confirm", <<>>))
     ELSE UNCHANGED <<consola, events>>
  /\ pc' = "done"
  /\ UNCHANGED <<op, cfg, inputText, content, data, toonOutput, jsonOutput, lines, pulled,
                 line, isFirst, fileHandle, fs, pending, stdout, error, origin>>

(* ----------------------------- decodeToJson ---------------------------- *)

\* const toonContent = await readInput(config.input)
D_ReadInput ==
  /\ op = "decode" /\ pc = "readInput"
  /\ \E ok \in BOOLEAN :
       IF ok THEN /\ content' = inputText
                  /\ pc' = "decode"
                  /\ error' = error
             ELSE /\ Throw(<<"ENOENT">>)
                  /\ content' = content
  /\ events' = Append(events, Ev("readInput", <<>>))
  /\ UNCHANGED <<op, cfg, inputText, data, toonOutput, jsonOutput, lines, pulled, line,
                 isFirst, fileHandle, fs, pending, stdout, consola, origin>>

\* D_Decode with the codec's error rethrown as it is
D_Decode_Unwrapped ==
  /\ op = "decode" /\ pc = "decode"
  /\ LET r == decodeOf(content, decodeOptions(cfg))
     IN IF r.ok THEN /\ data' = r.v
                     /\ jsonOutput' = jsonStringify(r.v, cfg.indent, 0)
                     /\ pc' = IF HasOutput(cfg) THEN "writeFile" ELSE "log"
                     /\ error' = error
                ELSE /\ Throw(<<r.err>>)
                     /\ UNCHANGED <<data, jsonOutput>>
  /\ events' = Append(events, Ev("decode", <<>>))
  /\ UNCHANGED <<op, cfg, inputText, content, toonOutput, lines, pulled, line,
                 isFirst, fileHandle, fs, pending, stdout, consola, origin>>

\* data = decode(toonContent, decodeOptions), the failure wrapped; then
\* jsonOutput = JSON.stringify(data, undefined, config.indent)
D_Decode ==
  /\ op = "decode" /\ pc = "decode"
  /\ LET r == decodeOf(content, decodeOptions(cfg))
     IN IF r.ok THEN /\ data' = r.v
                     /\ jsonOutput' = jsonStringify(r.v, cfg.indent, 0)
                     /\ pc' = IF HasOutput(cfg) THEN "writeFile" ELSE "log"
                     /\ error' = error
                ELSE /\ Throw(<<"Failed to decode TOON: ", r.err>>)
                     /\ UNCHANGED <<data, jsonOutput>>
  /\ events' = Append(events, Ev("decode", <<>>))
  /\ UNCHANGED <<op, cfg, inputText, content, toonOutput, lines, pulled, line,
                 isFirst, fileHandle, fs, pending, stdout, consola, origin>>

\* await fsp.writeFile(config.output, jsonOutput, 'utf-8')
D_WriteFile ==
  /\ op = "decode" /\ pc = "writeFile"
  /\ WriteFile(cfg.output, jsonOutput, "confirm")
  /\ UNCHANGED <<op, cfg, inputText, content, data, toonOutput, jsonOutput, lines, pulled,
                 line, isFirst, fileHandle, pending, stdout, consola, origin>>

\* consola.success(`Decoded ... -> ...`)
D_Confirm ==
  /\ op = "decode" /\ pc = "confirm"
  /\ consola' = Append(consola, Confirmation("Decoded"))
  /\ events' = Append(events, Ev("confirm", <<>>))
  /\ pc' = "done"
  /\ UNCHANGED <<op, cfg, inputText, content, data, toonOutput, jsonOutput, lines, pulled,
                 line, isFirst, fileHandle, fs, pending, stdout, error, origin>>

\* console.log(jsonOutput)
D_Log ==
  /\ op = "decode" /\ pc = "log"
  /\ ConsoleLog(jsonOutput)
  /\ pc' = "done"
  /\ events' = Append(events, Ev("console.log", jsonOutput))
  /\ UNCHANGED <<op, cfg, inputText, content, data, toonOutput, jsonOutput, lines, pulled,
                 line, isFirst, fileHandle, fs, pending, consola, error, origin>>

(* ------------------------------ round trip ----------------------------- *)

\* the text a finished encode run has produced: the output file, or stdout
Produced == IF HasOutput(cfg) THEN fs[cfg.output] ELSE Concat(stdout)

\* with statistics and no output path the report shares the terminal with the
\* TOON text; every other finished run leaves TOON text alone
ProducesToonOnly == HasOutput(cfg) \/ ~cfg.printStats

\* a decode run is started on the text an encode run has produced, as the
\* tests do when they feed the encoder's output to the decoder
StartDecode ==
  /\ op = "encode" /\ pc = "done"
  /\ ProducesToonOnly
  /\ \E c \in DecodeConfigs :
       /\ op' = "decode" /\ cfg' = c
       /\ inputText' = Produced
       /\ origin' = [t |-> "encode", value |-> data, cfg |-> cfg]
  /\ pc' = "readInput"
  /\ content' = <<>> /\ data' = NoData /\ toonOutput' = <<>> /\ jsonOutput' = <<>>
  /\ lines' = <<>> /\ pulled' = 0 /\ line' = <<>> /\ isFirst' = TRUE
  /\ fileHandle' = "undefined" /\ pending' = <<>>
  /\ stdout' = <<>> /\ consola' = <<>> /\ error' = NoError /\ events' = <<>>
  /\ UNCHANGED fs

Next ==
  \/ E_ReadInput \/ E_ParseJson \/ E_Encode \/ E_WriteFile \/ E_Log \/ E_Report
  \/ E_EncodeLines \/ S_Open \/ S_Next \/ S_WriteSep \/ S_WriteLine \/ S_WriteDone
  \/ S_Close \/ O_Next \/ O_Write \/ O_Final \/ E_Confirm
  \/ D_ReadInput \/ D_Decode \/ D_WriteFile \/ D_Confirm \/ D_Log
  \/ StartDecode

Spec == Init /\ [][Next]_vars

(* ------------------------------- claims -------------------------------- *)

RECURSIVE Only(_, _)
\* the events of the given kinds, in order
Only(evs, kinds) ==
  IF evs = <<>> THEN <<>>
  ELSE (IF Head(evs)[1] \in kinds THEN <<Head(evs)>> ELSE <<>>) \o Only(Tail(evs), kinds)

Count(kinds) == Len(Only(events, kinds))
IsPrefix(a, b) == Len(a) <= Len(b) /\ a = SubSeq(b, 1, Len(a))
RECURSIVE Texts(_)
Texts(evs) == IF evs = <<>> THEN <<>> ELSE <<Head(evs)[2]>> \o Texts(Tail(evs))

OutputKinds == {"open", "write", "written", "writeFile", "stdout.write", "console.log"}
Confirmations == {i \in 1..Len(consola) : consola[i].kind \in {"Encoded", "Decoded"}}
FreshFs == [p \in Paths |-> OldContent]

StreamingToFile == op = "encode" /\ ~cfg.printStats /\ HasOutput(cfg)
StreamingToStdout == op = "encode" /\ ~cfg.printStats /\ ~HasOutput(cfg)
Returned == pc \in {"confirm", "done"}

\* C1: when writeStreamingToon has returned from streaming to a file, what was
\* written to the file, chunk after chunk, is the lines joined by "\n" (no
\* leading and no trailing newline), which is the text encode gives for the
\* same value and options
C1_StreamedFileEqualsEncode ==
  (StreamingToFile /\ Returned) =>
     /\ fs[cfg.output] = Join(lines, <<NL>>)
     /\ Concat(Texts(Only(events, {"written"}))) = fs[cfg.output]
     /\ fs[cfg.output] = encodeOf(data, encodeOptions(cfg))

C1_Witness ==
  StreamingToFile /\ pc = "done" /\ Len(lines) >= 2 /\ fs[cfg.output] = Join(lines, <<NL>>)

\* C2: when writeStreamingToon has returned from streaming to stdout, the
\* chunks given to process.stdout.write, concatenated, are the lines joined
\* by "\n" followed by one final "\n"; for no lines, the single "\n"
C2_StdoutEqualsEncodeNewline ==
  (StreamingToStdout /\ Returned) =>
     /\ Concat(stdout) = Join(lines, <<NL>>) \o <<NL>>
     /\ Concat(stdout) = encodeOf(data, encodeOptions(cfg)) \o <<NL>>
     /\ stdout = Texts(Only(events, {"stdout.write"}))
     /\ (lines = <<>> => Concat(stdout) = <<NL>>)

C2_Witness ==
  StreamingToStdout /\ pc = "done" /\ Len(lines) >= 2
    /\ Concat(stdout) = Join(lines, <<NL>>) \o <<NL>>

\* C3: on input that is not valid JSON, encodeToToon fails with the message
\* "Failed to parse JSON: " followed by the parser's message, and it calls
\* neither encode nor encodeLines, opens and writes no file, writes nothing to
\* stdout and emits no message
C3_InvalidJsonFails ==
  (op = "encode" /\ ~jsonParse(inputText).ok) =>
     /\ pc \in {"readInput", "parse", "failed"}
     /\ (pc = "failed" /\ content = inputText =>
           error = <<"Failed to parse JSON: ", jsonParse(inputText).err>>)
     /\ Count({"encode", "encodeLines"} \cup OutputKinds) = 0
     /\ fs = FreshFs /\ stdout = <<>> /\ consola = <<>>

C3_Witness ==
  op = "encode" /\ pc = "failed" /\ content = MalformedJson
    /\ error = <<"Failed to parse JSON: ", "SyntaxError">>

UnterminatedInput == <<"k", ":", " ", QUOTE, "u">>

\* C4: when decode fails, decodeToJson fails with the message "Failed to
\* decode TOON: " followed by the codec's message, writes no output file,
\* prints nothing and emits no confirmation; an unterminated quoted string
\* fails so in strict and in non-strict mode
C4_DecodeFailureWrapped ==
  (op = "decode" /\ content = inputText /\ pc # "readInput"
     /\ ~decodeOf(inputText, decodeOptions(cfg)).ok) =>
     /\ pc \in {"decode", "failed"}
     /\ (pc = "failed" =>
           error = <<"Failed to decode TOON: ", decodeOf(inputText, decodeOptions(cfg)).err>>)
     /\ (pc = "failed" /\ inputText = UnterminatedInput =>
           error = <<"Failed to decode TOON: ", "UnterminatedString">>)
     /\ Count(OutputKinds) = 0
     /\ fs[JsonPath] = OldContent /\ stdout = <<>> /\ consola = <<>>

C4_Witness ==
  op = "decode" /\ pc = "failed" /\ inputText = UnterminatedInput /\ ~cfg.strict
    /\ error = <<"Failed to decode TOON: ", "UnterminatedString">>

\* the place of the first event of a kind, 0 when there is none
FirstOf(kind) ==
  IF \E i \in 1..Len(events) : events[i][1] = kind
  THEN CHOOSE i \in 1..Len(events) :
         events[i][1] = kind /\ \A j \in 1..(i - 1) : events[j][1] # kind
  ELSE 0

\* C5: the Encoded / Decoded confirmation is emitted at most once, only with
\* an output path, never on a run that fails, on every run with an output
\* path that succeeds, and only after the last write to the output file has
\* completed and, when streaming, after the handle has been closed
C5_ConfirmationIffSuccessWithOutput ==
  /\ Cardinality(Confirmations) <= 1
  /\ Cardinality(Confirmations) = Count({"confirm"})
  /\ (Confirmations # {} => HasOutput(cfg) /\ pc = "done" /\ error = NoError)
  /\ (pc = "done" /\ HasOutput(cfg) => Confirmations # {})
  /\ (Confirmations # {} =>
        /\ pending = <<>>
        /\ \A i \in 1..Len(events) :
             events[i][1] \in {"open", "write", "written", "writeFails", "writeFile", "close"}
               => i < FirstOf("confirm")
        /\ (op = "encode" /\ ~cfg.printStats =>
              fileHandle = "closed" /\ Count({"close"}) = 1)
        /\ fs[cfg.output] = (IF op = "encode" THEN encodeOf(data, encodeOptions(cfg))
                             ELSE jsonOutput))

C5_Witness ==
  StreamingToFile /\ pc = "done" /\ Confirmations # {} /\ Len(lines) >= 2

\* C6: with printStats, encodeToToon calls encode once and never encodeLines,
\* and the whole TOON string exists before the first write (when encode
\* fails nothing is written and no statistics are printed); without
\* printStats it never calls encode and every chunk of output is a line of
\* the encodeLines sequence or a newline
C6_StatsSelectsPath ==
  op = "encode" =>
    /\ cfg.printStats =>
         /\ Count({"encodeLines", "next", "open", "write", "stdout.write"}) = 0
         /\ Count({"encode"}) <= 1
         /\ (pc \in {"writeFile", "log", "report", "done"} =>
               Count({"encode"}) = 1 /\ toonOutput = encodeOf(data, encodeOptions(cfg)))
         /\ (Count({"writeFile", "console.log"}) > 0 =>
               /\ FirstOf("encode") # 0
               /\ \A i \in 1..Len(events) :
                    events[i][1] \in {"writeFile", "console.log"} =>
                      FirstOf("encode") < i /\ events[i][2] = toonOutput)
         /\ (pc = "failed" /\ error \in {<<"InvalidDelimiter">>, <<"InvalidIndent">>} =>
               /\ Count(OutputKinds \cup {"stats"}) = 0
               /\ fs = FreshFs /\ stdout = <<>> /\ consola = <<>>)
    /\ ~cfg.printStats =>
         /\ Count({"encode", "writeFile", "console.log", "stats"}) = 0
         /\ toonOutput = <<>>
         /\ \A i \in 1..Len(events) :
              events[i][1] \in {"write", "stdout.write"} =>
                events[i][2] = <<NL>> \/ \E j \in 1..pulled : events[i][2] = lines[j]

C6_Witness ==
  op = "encode" /\ cfg.printStats /\ pc = "done" /\ Count({"encode"}) = 1
    /\ Len(toonOutput) > 0

OptionErrors == {<<"InvalidDelimiter">>, <<"InvalidIndent">>}
InvalidOptionsRun == op = "encode" /\ ~ValidOptions(encodeOptions(cfg))

\* C7 as stated: with invalid options the error is raised before the input is
\* read, before the output file is opened or truncated and before anything
\* is written
C7_RejectedBeforeAnyIO ==
  (InvalidOptionsRun /\ error \in OptionErrors) =>
     /\ Count({"readInput"} \cup OutputKinds) = 0
     /\ fs = FreshFs /\ stdout = <<>>

\* C7 amended: with invalid options encodeToToon raises the option error
\* after it has read and parsed the input, and before the output file is
\* opened or truncated and before anything is written; it never succeeds and
\* emits no confirmation
C7_RejectedBeforeAnyOutput ==
  InvalidOptionsRun =>
     /\ Count(OutputKinds \cup {"confirm", "stats"}) = 0
     /\ fs = FreshFs /\ stdout = <<>> /\ consola = <<>>
     /\ pc # "done"
     /\ (error \in OptionErrors =>
           /\ pc = "failed"
           /\ error = OptionError(encodeOptions(cfg))
           /\ Texts(events) = <<(<<>>), <<>>, <<>>>>
           /\ events[1][1] = "readInput" /\ events[2][1] = "JSON.parse"
           /\ events[3][1] = (IF cfg.printStats THEN "encode" ELSE "encodeLines"))

C7_Witness ==
  InvalidOptionsRun /\ pc = "failed" /\ error = <<"InvalidDelimiter">>
    /\ HasOutput(cfg) /\ ~cfg.printStats /\ fs = FreshFs

\* C8: streaming to a file, once fsp.open has succeeded the handle is closed
\* exactly once on every way out (the loop ending, the producer throwing, a
\* write failing) and no write is issued after the close; when fsp.open
\* fails no close is attempted and the open error is the one thrown
C8_GuaranteedClose ==
  StreamingToFile =>
    /\ Count({"close"}) <= 1
    /\ (fileHandle = "closed") = (Count({"close"}) = 1)
    /\ (fileHandle # "undefined" /\ pc \in {"confirm", "done", "failed"} =>
          fileHandle = "closed")
    /\ (Count({"close"}) = 1 =>
          /\ pending = <<>>
          /\ \A i \in 1..Len(events) :
               events[i][1] \in {"write", "written", "writeFails", "next"}
                 => i < FirstOf("close"))
    /\ (Count({"open"}) = 1 /\ fileHandle = "undefined" /\ pc # "finally" =>
          pc = "failed" /\ error = <<"EACCES">> /\ Count({"close"}) = 0)

C8_Witness ==
  StreamingToFile /\ pc = "failed" /\ error = <<"ProducerError">>
    /\ fileHandle = "closed" /\ pulled >= 1

DefaultOptions == [indent |-> 2, delimiter |-> ","]
RoundTripRun ==
  op = "decode" /\ origin.t = "encode" /\ encodeOptions(origin.cfg) = DefaultOptions

\* the JSON text a finished decode run has produced
DecodedText ==
  IF HasOutput(cfg) THEN fs[cfg.output]
  ELSE SubSeq(Concat(stdout), 1, Len(Concat(stdout)) - 1)

RECURSIVE ExpectedLog(_, _)
\* the calls a loop over the lines makes from line i on: take the line,
\* write the separator unless it is the first, write the line, each write
\* completed before the next call
ExpectedLog(ls, i) ==
  IF i > Len(ls) THEN <<Ev("end", <<>>)>>
  ELSE <<Ev("next", ls[i])>>
       \o (IF i > 1 THEN <<Ev("write", <<NL>>), Ev("written", <<NL>>)>> ELSE <<>>)
       \o <<Ev("write", ls[i]), Ev("written", ls[i])>>
       \o ExpectedLog(ls, i + 1)

LoopKinds == {"next", "end", "write", "written"}
Separators(evs) == {i \in 1..Len(evs) : evs[i] = Ev("written", <<NL>>)}

\* C10: streaming to a file, the lines are taken from the producer once each
\* and in order, line i is written (after its separator when i > 1) before
\* line i+1 is taken, at most one write is outstanding, and n lines get
\* max(0, n-1) separators, none before the first line and none after the last
C10_InOrderSingleConsumer ==
  StreamingToFile =>
    /\ Len(pending) <= 1
    /\ IsPrefix(Only(events, LoopKinds), ExpectedLog(lines, 1))
    /\ Texts(Only(events, {"next"})) = SubSeq(lines, 1, pulled)
    /\ (Returned =>
          /\ pulled = Len(lines)
          /\ Only(events, LoopKinds) = ExpectedLog(lines, 1)
          /\ Cardinality(Separators(events)) = (IF Len(lines) = 0 THEN 0 ELSE Len(lines) - 1))

C10_Witness ==
  StreamingToFile /\ pc = "done" /\ Len(lines) >= 3
    /\ Cardinality(Separators(events)) = Len(lines) - 1

\* the for-of loop of a run streaming to a file has had the producer throw
ProducerThrew == StreamingToFile /\ Count({"nextThrows"}) > 0

\* C11: streaming to a file, the file is opened, truncated, before the first
\* line is requested; once the producer has thrown while producing line k
\* (k = pulled + 1 >= 1) the file holds the first k-1 lines joined by "\n"
\* (nothing when k = 1) with no write outstanding, the finally block closes
\* the handle, the run ends by throwing (the producer's error, or the close
\* error when the close in the finally block fails as well) and no Encoded
\* confirmation is emitted
C11_PartialFileOnProducerError ==
  /\ (StreamingToFile =>
        \A i \in 1..Len(events) :
          events[i][1] \in {"next", "nextThrows", "end"} =>
            0 < FirstOf("open") /\ FirstOf("open") < i)
  /\ (ProducerThrew =>
        /\ Count({"nextThrows"}) = 1
        /\ pulled < Len(lines)
        /\ fs[cfg.output] = Join(SubSeq(lines, 1, pulled), <<NL>>)
        /\ pending = <<>>
        /\ pc \in {"finally", "failed"}
        /\ (pc = "finally" => fileHandle = "open" /\ error = <<"ProducerError">>)
        /\ (pc = "failed" =>
              /\ fileHandle = "closed"
              /\ Count({"close"}) = 1
              /\ FirstOf("nextThrows") < FirstOf("close")
              /\ error \in {<<"ProducerError">>, <<"ECLOSE">>})
        /\ Confirmations = {}
        /\ Count({"confirm"}) = 0)

C11_Witness ==
  ProducerThrew /\ pc = "failed" /\ pulled = 2 /\ Len(lines) >= 3
    /\ fileHandle = "closed" /\ error = <<"ProducerError">>
    /\ fs[cfg.output] = lines[1] \o <<NL>> \o lines[2]

====
